---------------------------- MODULE Spec2Model ----------------------------
(***************************************************************************)
(* A model of src/src/geometry.rs (rust-g): the DMGraph adjacency builder, *)
(* DMVec2::polygon_area, and the two exported operations                   *)
(* geometry_delaunay_triangulate_to_graph and                              *)
(* geometry_delaunay_voronoi_graph.                                        *)
(*                                                                         *)
(* Vector indices are those of the source (0-based); a Rust Vec v is the   *)
(* sequence whose element v[i] is At(v, i).                                *)
(*                                                                         *)
(* The delaunator and voronoice crates are not part of the repository.     *)
(* Their results are nondeterministic choices constrained only by what     *)
(* their interfaces guarantee: a triangulation is a flat list of in-range  *)
(* point indices, three per triangle, the three of a triangle distinct;    *)
(* VoronoiBuilder::build returns None or Some diagram.                     *)
(***************************************************************************)
EXTENDS Integers, Sequences, FiniteSets, TLC

VARIABLES
    pc,                 \* position of the call in progress
    graph,              \* the DMGraph under construction (self / constructing / constructing_graph)
    triangles,          \* the flat triangle index list (triangulated.triangles)
    chunk,              \* number of chunks of three already consumed by the loop
    graphB,             \* a second, independent call's graph (order-independence)
    trianglesB,         \* the second call's triangle list
    point_json,         \* payload of geometry_delaunay_triangulate_to_graph
    packed,             \* payload of geometry_delaunay_voronoi_graph
    unpacked,           \* the decoded DMDelaunayVoronoiCall
    box,                \* the BoundingBox handed to the builder
    computed,           \* what VoronoiBuilder::build returned
    i,                  \* index of the per-site loop
    areas_constructed,  \* Vec<Option<f64>>
    cells_constructed,  \* Vec<Option<Vec<DMVec2>>>
    reply,              \* what the call returned
    vertices,           \* argument of polygon_area
    area,               \* result of polygon_area
    call                \* arguments of the latest connect(a, b)

vars == <<pc, graph, triangles, chunk, graphB, trianglesB, point_json, packed,
          unpacked, box, computed, i, areas_constructed, cells_constructed, reply,
          vertices, area, call>>

(***************************************************************************)
(* Bounds of the model.                                                    *)
(***************************************************************************)
MantBits == 3       \* significand width of the model's floats (f64 has 53)
MaxVerts == 3       \* longest vertex list handed to polygon_area
GraphSize == 3      \* largest graph of the free connect() specification
MaxEntries == 9     \* most neighbour-list entries of that graph, all lists together
MaxPoints == 4      \* most input points of triangulate_to_graph
MaxTris == 2        \* most triangles the triangulation returns
MaxSites == 3       \* most input points of the Voronoi operation
MaxVorTris == 1     \* most triangles of the Voronoi operation's triangulation

At(s, k) == s[k + 1]

Pow2(k) == IF k <= 0 THEN 1 ELSE 2 ^ k

Abs(n) == IF n < 0 THEN -n ELSE n

(***************************************************************************)
(* f64.  A finite value is n * 2^e with n odd (or n = 0, e = 0); the       *)
(* result of every operation is rounded to MantBits significant bits,      *)
(* ties to even, as IEEE 754 does with 53.  The exponent is unbounded:     *)
(* the values of the model stay far from overflow and underflow.           *)
(***************************************************************************)
RECURSIVE Normalize(_, _)
Normalize(n, e) ==
    IF n = 0 THEN [k |-> "fin", n |-> 0, e |-> 0]
    ELSE IF n % 2 = 0 THEN Normalize(n \div 2, e + 1)
    ELSE [k |-> "fin", n |-> n, e |-> e]

RECURSIVE Shift(_, _)
Shift(a, s) == IF a \div Pow2(s) < Pow2(MantBits) THEN s ELSE Shift(a, s + 1)

Round(n, e) ==
    LET a == Abs(n)
        s == Shift(a, 0)
        q == a \div Pow2(s)
        r == a % Pow2(s)
        half == Pow2(s - 1)
        up == s > 0 /\ (r > half \/ (r = half /\ q % 2 = 1))
        q2 == IF up THEN q + 1 ELSE q
    IN  Normalize((IF n < 0 THEN -1 ELSE 1) * q2, e + s)

Fin(v) == Normalize(v, 0)
Inf == [k |-> "inf", n |-> 1, e |-> 0]
NegInf == [k |-> "inf", n |-> -1, e |-> 0]
NaN == [k |-> "nan", n |-> 0, e |-> 0]
Zero == Fin(0)
Two == Fin(2)
Half == [k |-> "fin", n |-> 1, e |-> -1]

Min(a, b) == IF a <= b THEN a ELSE b

Sign(x) == IF x.n < 0 THEN -1 ELSE IF x.n > 0 THEN 1 ELSE 0

FNeg(x) == [x EXCEPT !.n = -x.n]

FAdd(x, y) ==
    IF x.k = "nan" \/ y.k = "nan" THEN NaN
    ELSE IF x.k = "inf" /\ y.k = "inf" THEN (IF x.n = y.n THEN x ELSE NaN)
    ELSE IF x.k = "inf" THEN x
    ELSE IF y.k = "inf" THEN y
    ELSE LET m == Min(x.e, y.e)
         IN  Round(x.n * Pow2(x.e - m) + y.n * Pow2(y.e - m), m)

FSub(x, y) == FAdd(x, FNeg(y))

FMul(x, y) ==
    IF x.k = "nan" \/ y.k = "nan" THEN NaN
    ELSE IF x.k = "inf" \/ y.k = "inf"
         THEN (IF Sign(x) * Sign(y) = 0 THEN NaN
               ELSE [k |-> "inf", n |-> Sign(x) * Sign(y), e |-> 0])
    ELSE Round(x.n * y.n, x.e + y.e)

\* x < y; false when either is NaN
FLess(x, y) ==
    IF x.k = "nan" \/ y.k = "nan" THEN FALSE
    ELSE IF x.k = "inf" THEN x.n < 0 /\ ~(y.k = "inf" /\ y.n < 0)
    ELSE IF y.k = "inf" THEN y.n > 0
    ELSE LET m == Min(x.e, y.e)
         IN  x.n * Pow2(x.e - m) < y.n * Pow2(y.e - m)

\* f64::min and f64::max: a NaN operand is ignored
FMin(x, y) == IF x.k = "nan" THEN y ELSE IF y.k = "nan" THEN x
              ELSE IF FLess(y, x) THEN y ELSE x
FMax(x, y) == IF x.k = "nan" THEN y ELSE IF y.k = "nan" THEN x
              ELSE IF FLess(x, y) THEN y ELSE x

(***************************************************************************)
(* DMVec2 and polygon_area.  The area and cell fields of a DMVec2 are      *)
(* never read, and are None in every vertex the code builds.               *)
(***************************************************************************)
DMVec2(x, y) == [x |-> x, y |-> y]

RECURSIVE AreaLoop(_, _, _)
AreaLoop(vs, k, acc) ==
    IF k = Len(vs) THEN acc
    ELSE LET j == (k + 1) % Len(vs)
             a1 == FAdd(acc, FMul(At(vs, k).x, At(vs, j).y))
             a2 == FSub(a1, FMul(At(vs, k).y, At(vs, j).x))
         IN  AreaLoop(vs, k + 1, a2)

polygon_area(vs) == AreaLoop(vs, 0, Zero)

(***************************************************************************)
(* DMGraph.                                                                *)
(***************************************************************************)
\* a plausible slip: one neighbour list too many
empty_of_size_extra(size) ==
    [count |-> size, edges |-> [k \in 1..(size + 1) |-> <<>>]]

empty_of_size(size) == [count |-> size, edges |-> [k \in 1..size |-> <<>>]]

Contains(list, b) == \E k \in 1..Len(list) : list[k] = b

\* a plausible slip: the membership test is dropped
connect_single_push(g, a, b) ==
    [g EXCEPT !.edges[a + 1] = Append(At(g.edges, a), b)]

connect_single(g, a, b) ==
    LET edge_list == At(g.edges, a)
    IN  IF Contains(edge_list, b) THEN g
        ELSE [g EXCEPT !.edges[a + 1] = Append(edge_list, b)]

\* a plausible slip: only one direction is recorded
connect_oneway(g, a, b) == connect_single(g, a, b)

connect(g, a, b) == connect_single(connect_single(g, a, b), b, a)

Vertices(g) == 0..(g.count - 1)

RECURSIVE SumLen(_, _)
SumLen(lists, k) == IF k = 0 THEN 0 ELSE Len(lists[k]) + SumLen(lists, k - 1)
Entries(g) == SumLen(g.edges, Len(g.edges))
Neighbours(g, v) == {At(g.edges, v)[k] : k \in 1..Len(At(g.edges, v))}

(***************************************************************************)
(* Values of the variables a specification does not use.                   *)
(***************************************************************************)
NoGraph == empty_of_size(0)
NoCall == <<>>
NoPayload == [valid |-> FALSE, points |-> <<>>]
NoPacked == [valid |-> FALSE, area |-> Zero, cell |-> Zero, margin |-> Zero,
             points |-> <<>>]
NoBox == [built |-> FALSE, center |-> DMVec2(Zero, Zero), width |-> Zero,
          height |-> Zero]
NoReply == [kind |-> "none"]
None == [some |-> FALSE]
Some(v) == [some |-> TRUE, v |-> v]

\* a plausible slip: a failure is swallowed and the call goes on
unwrap_or_default(ok, next) == next

\* Option::unwrap and Result::unwrap: the position after it
unwrap(ok, next) == IF ok THEN next ELSE "panic"

GraphIdle == graph = NoGraph /\ call = NoCall
LoopIdle == triangles = <<>> /\ chunk = 0
SecondIdle == graphB = NoGraph /\ trianglesB = <<>>
TriIdle == point_json = NoPayload
VorIdle == /\ packed = NoPacked /\ unpacked = NoPacked /\ box = NoBox /\ i = 0
           /\ computed = None
           /\ areas_constructed = <<>> /\ cells_constructed = <<>>
AreaIdle == vertices = <<>> /\ area = Zero

(***************************************************************************)
(* SpecGraph: any sequence of connect(a, b) with in-range indices on a     *)
(* graph made by empty_of_size.                                            *)
(***************************************************************************)
InitGraph ==
    /\ pc = "graph"
    /\ graph \in {empty_of_size(n) : n \in 0..GraphSize}
    /\ call = NoCall
    /\ reply = NoReply
    /\ LoopIdle /\ SecondIdle /\ TriIdle /\ VorIdle /\ AreaIdle

Connect ==
    /\ pc = "graph"
    /\ \E a \in Vertices(graph), b \in Vertices(graph) :
          /\ Entries(connect(graph, a, b)) <= MaxEntries
          /\ graph' = connect(graph, a, b)
          /\ call' = <<a, b>>
    /\ UNCHANGED <<pc, triangles, chunk, graphB, trianglesB, point_json, packed,
                   unpacked, box, computed, i, areas_constructed, cells_constructed,
                   reply, vertices, area>>

NextGraph == Connect

SpecGraph == InitGraph /\ [][NextGraph]_vars

Symmetric(g) ==
    \A a \in Vertices(g), b \in Vertices(g) :
        Contains(At(g.edges, a), b) <=> Contains(At(g.edges, b), a)

NoDuplicates(g) ==
    \A v \in Vertices(g) :
        \A k \in 1..Len(At(g.edges, v)), l \in 1..Len(At(g.edges, v)) :
            k # l => At(g.edges, v)[k] # At(g.edges, v)[l]

(***************************************************************************)
(* C1: from empty_of_size(count), after every connect(a, b) with in-range  *)
(* indices the graph is symmetric (j is in edges[i] exactly when i is in   *)
(* edges[j]) and no neighbour list holds the same index twice.             *)
(***************************************************************************)
C1_SymmetricNoDuplicates ==
    pc = "graph" =>
        /\ Len(graph.edges) = graph.count
        /\ Symmetric(graph)
        /\ NoDuplicates(graph)

\* connect(a, b) with a # b has run on a vertex that already had a neighbour
C1_Witness ==
    /\ pc = "graph" /\ call # NoCall
    /\ call[1] # call[2]
    /\ Len(At(graph.edges, call[1])) >= 2
    /\ Contains(At(graph.edges, call[1]), call[2])

HasEdge(g, a, b) == Contains(At(g.edges, a), b) \/ Contains(At(g.edges, b), a)

(***************************************************************************)
(* C4: connect(a, b) on a graph that already holds the undirected edge     *)
(* {a, b}, in either argument order, leaves count and every neighbour      *)
(* list, the order of its entries included, unchanged.                     *)
(***************************************************************************)
C4_ConnectIdempotent ==
    [][(call' # NoCall /\ HasEdge(graph, call'[1], call'[2])) => graph' = graph]_vars

\* the latest connect(a, b), a # b, appended to neither list: the edge was there
C4_Witness ==
    /\ pc = "graph" /\ call # NoCall
    /\ LET a == call[1]
           b == call[2]
           la == At(graph.edges, a)
           lb == At(graph.edges, b)
       IN  /\ a # b
           /\ Contains(la, b) /\ Contains(lb, a)
           /\ la[Len(la)] # b /\ lb[Len(lb)] # a

(***************************************************************************)
(* The loop over triangles.chunks_exact(3), shared by both operations.     *)
(***************************************************************************)
NumChunks(t) == Len(t) \div 3
Chunk(t, k) == <<t[3 * k + 1], t[3 * k + 2], t[3 * k + 3]>>

\* a plausible slip: the third edge joins c to itself
ConnectChunkTypo(g, t, k) ==
    LET a == Chunk(t, k)[1]
        b == Chunk(t, k)[2]
        c == Chunk(t, k)[3]
    IN  connect(connect(connect(g, a, b), a, c), c, c)

\* a plausible slip: the third edge is forgotten
ConnectChunkTwo(g, t, k) ==
    LET a == Chunk(t, k)[1]
        b == Chunk(t, k)[2]
        c == Chunk(t, k)[3]
    IN  connect(connect(g, a, b), a, c)

ConnectChunk(g, t, k) ==
    LET a == Chunk(t, k)[1]
        b == Chunk(t, k)[2]
        c == Chunk(t, k)[3]
    IN  connect(connect(connect(g, a, b), a, c), b, c)

(***************************************************************************)
(* delaunator::triangulate: some flat list of at most m triangles over the *)
(* points 0..n-1, the three indices of a triangle distinct.                *)
(***************************************************************************)
Triples(n) ==
    {t \in [1..3 -> 0..(n - 1)] : t[1] # t[2] /\ t[1] # t[3] /\ t[2] # t[3]}

RECURSIVE Flatten(_, _)
Flatten(f, k) == IF k = 0 THEN <<>> ELSE Flatten(f, k - 1) \o f[k]

\* t is a result triangulate may return for n points
Triangulation(t, n, m) ==
    \E k \in 0..m : \E f \in [1..k -> Triples(n)] : t = Flatten(f, k)

\* the input points: on a grid two columns wide, no two of them equal
Pt(k) == DMVec2(Fin(2 * (k % 2)), Fin(2 * (k \div 2)))
Spread(n) == [k \in 1..n |-> Pt(k - 1)]
Coincident(n) == [k \in 1..n |-> Pt(0)]

(***************************************************************************)
(* SpecTri: geometry_delaunay_triangulate_to_graph.                        *)
(***************************************************************************)
InitTri ==
    /\ pc = "start"
    /\ point_json \in {NoPayload}
          \cup {[valid |-> TRUE, points |-> Spread(n)] : n \in 0..MaxPoints}
    /\ reply = NoReply
    /\ GraphIdle /\ LoopIdle /\ SecondIdle /\ VorIdle /\ AreaIdle

\* line 72: serde_json::from_str(point_json).unwrap()
TriDecode ==
    /\ pc = "start"
    /\ pc' = unwrap(point_json.valid, "triangulate")
    /\ UNCHANGED <<graph, triangles, chunk, graphB, trianglesB, point_json,
                   packed, unpacked, box, computed, i, areas_constructed,
                   cells_constructed, reply, vertices, area, call>>

\* lines 73-75
TriTriangulate ==
    /\ pc = "triangulate"
    /\ Triangulation(triangles', Len(point_json.points), MaxTris)
    /\ graph' = empty_of_size(Len(point_json.points))
    /\ chunk' = 0
    /\ pc' = "loop"
    /\ UNCHANGED <<graphB, trianglesB, point_json, packed, unpacked, box, computed, i,
                   areas_constructed, cells_constructed, reply, vertices,
                   area, call>>

\* lines 76-83, one iteration
TriLoop ==
    /\ pc = "loop"
    /\ chunk < NumChunks(triangles)
    /\ graph' = ConnectChunk(graph, triangles, chunk)
    /\ chunk' = chunk + 1
    /\ UNCHANGED <<pc, triangles, graphB, trianglesB, point_json, packed,
                   unpacked, box, computed, i, areas_constructed, cells_constructed,
                   reply, vertices, area, call>>

\* line 84
TriReply ==
    /\ pc = "loop"
    /\ chunk = NumChunks(triangles)
    /\ reply' = [kind |-> "graph", graph |-> graph]
    /\ pc' = "done"
    /\ UNCHANGED <<graph, triangles, chunk, graphB, trianglesB, point_json,
                   packed, unpacked, box, computed, i, areas_constructed,
                   cells_constructed, vertices, area, call>>

NextTri == TriDecode \/ TriTriangulate \/ TriLoop \/ TriReply

SpecTri == InitTri /\ [][NextTri]_vars

NPoints == Len(point_json.points)

InChunk(t, k, v) == t[3 * k + 1] = v \/ t[3 * k + 2] = v \/ t[3 * k + 3] = v

SideOfTriangle(t, n, a, b) ==
    \E k \in 0..(n - 1) : InChunk(t, k, a) /\ InChunk(t, k, b)

(***************************************************************************)
(* C2: the graph built by the loop has exactly the triangles' edges: for   *)
(* distinct i and j, j is in edges[i] if and only if some triangle of the  *)
(* list (read in groups of three) contains both i and j.  Stated for every *)
(* iteration (the chunks consumed so far) and for the graph replied.       *)
(***************************************************************************)
C2_ExactlyTriangleEdges ==
    /\ pc \in {"loop", "done"} =>
          \A a \in Vertices(graph), b \in Vertices(graph) :
              a # b => (Contains(At(graph.edges, a), b)
                            <=> SideOfTriangle(triangles, chunk, a, b))
    /\ pc = "done" => chunk = NumChunks(triangles) /\ reply.graph = graph

\* two triangles were read, and some pair of vertices is on no triangle
C2_Witness ==
    /\ pc = "done" /\ NumChunks(triangles) = 2
    /\ \E a \in Vertices(graph), b \in Vertices(graph) :
          a # b /\ ~Contains(At(reply.graph.edges, a), b)
    /\ \E a \in Vertices(graph) : Len(At(reply.graph.edges, a)) = 3

NoSelfLoops(g) == \A v \in Vertices(g) : ~Contains(At(g.edges, v), v)

(***************************************************************************)
(* C3: the graph built from a triangle list has no self-loops: no vertex   *)
(* v appears in its own neighbour list edges[v].                           *)
(***************************************************************************)
C3_NoSelfLoops ==
    /\ pc \in {"loop", "done"} => NoSelfLoops(graph)
    /\ pc = "done" => NoSelfLoops(reply.graph)

\* a graph with edges was replied
C3_Witness ==
    /\ pc = "done" /\ NumChunks(triangles) >= 1
    /\ \A v \in Vertices(reply.graph) : Len(At(reply.graph.edges, v)) >= 2

(***************************************************************************)
(* C9: on N input points the operation returns count = N and exactly N     *)
(* neighbour lists; when 0 <= N <= 2 every neighbour list is empty.        *)
(***************************************************************************)
C9_CountAndSmallInputs ==
    pc = "done" =>
        /\ reply.graph.count = NPoints
        /\ Len(reply.graph.edges) = NPoints
        /\ NPoints <= 2 =>
              \A k \in 1..Len(reply.graph.edges) : reply.graph.edges[k] = <<>>

C9_Witness == pc = "done" /\ NPoints = 2 /\ reply.graph.edges = <<<<>>, <<>>>>

(***************************************************************************)
(* SpecOrder: two independent calls of the triangulate-to-graph loop on    *)
(* the same points.  The first reads any triangle list; the second reads   *)
(* the same triangles with the indices of each triangle sorted and the     *)
(* triangles sorted.  Two lists that are permutations of each other have   *)
(* the same sorted list.                                                   *)
(***************************************************************************)
SortTriple(c) ==
    LET lo == Min(c[1], Min(c[2], c[3]))
        hi == IF c[1] >= c[2] /\ c[1] >= c[3] THEN c[1]
              ELSE IF c[2] >= c[3] THEN c[2] ELSE c[3]
    IN  <<lo, c[1] + c[2] + c[3] - lo - hi, hi>>

Before(c, d) ==
    \/ c[1] < d[1]
    \/ c[1] = d[1] /\ c[2] < d[2]
    \/ c[1] = d[1] /\ c[2] = d[2] /\ c[3] <= d[3]

RECURSIVE Insert(_, _)
Insert(cs, c) ==
    IF cs = <<>> THEN <<c>>
    ELSE IF Before(c, Head(cs)) THEN <<c>> \o cs
    ELSE <<Head(cs)>> \o Insert(Tail(cs), c)

RECURSIVE SortChunks(_, _)
SortChunks(t, k) ==
    IF k = 0 THEN <<>>
    ELSE Insert(SortChunks(t, k - 1), SortTriple(Chunk(t, k - 1)))

Canon(t) == Flatten(SortChunks(t, NumChunks(t)), NumChunks(t))

\* lines 73-75, both calls
OrdTriangulate ==
    /\ pc = "triangulate"
    /\ Triangulation(triangles', NPoints, MaxTris)
    /\ trianglesB' = Canon(triangles')
    /\ graph' = empty_of_size(NPoints)
    /\ graphB' = empty_of_size(NPoints)
    /\ chunk' = 0
    /\ pc' = "loop"
    /\ UNCHANGED <<point_json, packed, unpacked, box, computed, i, areas_constructed,
                   cells_constructed, reply, vertices, area, call>>

\* lines 76-83, one iteration of both calls
OrdLoop ==
    /\ pc = "loop"
    /\ chunk < NumChunks(triangles)
    /\ graph' = ConnectChunk(graph, triangles, chunk)
    /\ graphB' = ConnectChunk(graphB, trianglesB, chunk)
    /\ chunk' = chunk + 1
    /\ UNCHANGED <<pc, triangles, trianglesB, point_json, packed, unpacked,
                   box, computed, i, areas_constructed, cells_constructed, reply,
                   vertices, area, call>>

\* line 84, both calls
OrdReply ==
    /\ pc = "loop"
    /\ chunk = NumChunks(triangles)
    /\ reply' = [kind |-> "graph", graph |-> graph, graphB |-> graphB]
    /\ pc' = "done"
    /\ UNCHANGED <<graph, triangles, chunk, graphB, trianglesB, point_json,
                   packed, unpacked, box, computed, i, areas_constructed,
                   cells_constructed, vertices, area, call>>

NextOrder == TriDecode \/ OrdTriangulate \/ OrdLoop \/ OrdReply

SpecOrder == InitTri /\ [][NextOrder]_vars

(***************************************************************************)
(* C10: the graph does not depend, as a graph, on the order of the         *)
(* triangles or of the three indices inside a triangle: every vertex has   *)
(* the same set of neighbours (only the order of the entries of a          *)
(* neighbour list may differ).                                             *)
(***************************************************************************)
C10_OrderIndependent ==
    pc = "done" =>
        /\ reply.graph.count = reply.graphB.count
        /\ \A v \in Vertices(reply.graph) :
              Neighbours(reply.graph, v) = Neighbours(reply.graphB, v)

\* the two calls read different lists and replied different neighbour lists
C10_Witness ==
    /\ pc = "done" /\ NumChunks(triangles) = 2
    /\ triangles # trianglesB
    /\ reply.graph # reply.graphB

(***************************************************************************)
(* geometry_delaunay_voronoi_graph.                                        *)
(***************************************************************************)
\* lines 113-123: the scan for the extent of the points
RECURSIVE Extent(_, _, _)
Extent(ps, k, b) ==
    IF k = Len(ps) THEN b
    ELSE Extent(ps, k + 1,
                [x_low |-> FMin(b.x_low, At(ps, k).x),
                 x_high |-> FMax(b.x_high, At(ps, k).x),
                 y_low |-> FMin(b.y_low, At(ps, k).y),
                 y_high |-> FMax(b.y_high, At(ps, k).y)])

Bounds(ps) ==
    Extent(ps, 0, [x_low |-> Inf, x_high |-> NegInf, y_low |-> Inf,
                   y_high |-> NegInf])

\* lines 124 and 130: BoundingBox::new(center_point, width, height)
BoundingBox(ps, margin) ==
    LET b == Bounds(ps)
    IN  [built |-> TRUE,
         center |-> DMVec2(FAdd(b.x_low, FMul(FSub(b.x_high, b.x_low), Half)),
                           FAdd(b.y_low, FMul(FSub(b.y_high, b.y_low), Half))),
         width |-> FAdd(FSub(b.x_high, b.x_low), FMul(margin, Two)),
         height |-> FAdd(FSub(b.y_high, b.y_low), FMul(margin, Two))]

\* a plausible slip: the area flag is read for both
requires_cell_copied == unpacked.area # Zero

\* lines 125-126
requires_area == unpacked.area # Zero
requires_cell == unpacked.cell # Zero

\* line 145: for i in 0..count
SitesDone(k, n) == k >= n

\* the polygons the diagram may hold for a site: the box, or a corner of it
CellPolygons(bx) ==
    LET w == FMul(bx.width, Half)
        h == FMul(bx.height, Half)
        l == FSub(bx.center.x, w)
        r == FAdd(bx.center.x, w)
        d == FSub(bx.center.y, h)
        u == FAdd(bx.center.y, h)
    IN  {<<DMVec2(l, d), DMVec2(r, d), DMVec2(r, u), DMVec2(l, u)>>,
         <<DMVec2(l, d), DMVec2(bx.center.x, bx.center.y), DMVec2(l, u)>>}

FlagValues == {Zero, Fin(-2)}
Margins == {Fin(-1), Zero, Fin(1)}
PointLists == {Spread(n) : n \in 0..MaxSites} \cup {Coincident(n) : n \in 0..MaxSites}

InitVor ==
    /\ pc = "start"
    /\ packed \in {NoPacked}
          \cup [valid : {TRUE}, area : FlagValues, cell : FlagValues,
                margin : Margins, points : PointLists]
    /\ unpacked = NoPacked /\ box = NoBox /\ computed = None /\ i = 0
    /\ areas_constructed = <<>> /\ cells_constructed = <<>>
    /\ reply = NoReply
    /\ GraphIdle /\ LoopIdle /\ SecondIdle /\ TriIdle /\ AreaIdle

\* line 111: serde_json::from_str(packed).unwrap()
VorDecode ==
    /\ pc = "start"
    /\ pc' = unwrap(packed.valid, "bounds")
    /\ unpacked' = IF packed.valid THEN packed ELSE unpacked
    /\ UNCHANGED <<graph, triangles, chunk, graphB, trianglesB, point_json,
                   packed, box, computed, i, areas_constructed,
                   cells_constructed, reply, vertices, area, call>>

\* lines 112-126 and 129-131: the bounding box handed to the builder
VorBounds ==
    /\ pc = "bounds"
    /\ box' = BoundingBox(unpacked.points, unpacked.margin)
    /\ pc' = "build"
    /\ UNCHANGED <<graph, triangles, chunk, graphB, trianglesB, point_json,
                   packed, unpacked, computed, i, areas_constructed,
                   cells_constructed, reply, vertices, area, call>>

\* lines 127-134: build() returns None or Some diagram; unwrap; the empty graph
VorBuild ==
    /\ pc = "build"
    /\ \/ /\ computed' = None
          /\ triangles' = <<>>
       \/ /\ computed' = Some("diagram")
          /\ Triangulation(triangles', Len(unpacked.points), MaxVorTris)
    /\ pc' = unwrap(computed'.some, "graph")
    /\ graph' = IF pc' = "graph" THEN empty_of_size(Len(unpacked.points)) ELSE graph
    /\ chunk' = 0
    /\ UNCHANGED <<graphB, trianglesB, point_json, packed, unpacked, box, i,
                   areas_constructed, cells_constructed, reply, vertices,
                   area, call>>

\* lines 135-142, one iteration
VorGraphLoop ==
    /\ pc = "graph"
    /\ chunk < NumChunks(triangles)
    /\ graph' = ConnectChunk(graph, triangles, chunk)
    /\ chunk' = chunk + 1
    /\ UNCHANGED <<pc, triangles, graphB, trianglesB, point_json, packed,
                   unpacked, box, computed, i, areas_constructed,
                   cells_constructed, reply, vertices, area, call>>

\* lines 143-144
VorSlots ==
    /\ pc = "graph"
    /\ chunk = NumChunks(triangles)
    /\ areas_constructed' = [k \in 1..Len(unpacked.points) |-> None]
    /\ cells_constructed' = [k \in 1..Len(unpacked.points) |-> None]
    /\ i' = 0
    /\ pc' = "cells"
    /\ UNCHANGED <<graph, triangles, chunk, graphB, trianglesB, point_json,
                   packed, unpacked, box, computed, reply, vertices, area, call>>

\* lines 145-164, one iteration: the cell of site i, its area, its polygon
VorCell ==
    /\ pc = "cells"
    /\ ~SitesDone(i, Len(unpacked.points))
    /\ \E vertices_constructed \in CellPolygons(box) :
          /\ areas_constructed' =
                IF requires_area
                THEN [areas_constructed EXCEPT
                         ![i + 1] = Some(polygon_area(vertices_constructed))]
                ELSE areas_constructed
          /\ cells_constructed' =
                IF requires_cell
                THEN [cells_constructed EXCEPT ![i + 1] = Some(vertices_constructed)]
                ELSE cells_constructed
    /\ i' = i + 1
    /\ UNCHANGED <<pc, graph, triangles, chunk, graphB, trianglesB, point_json,
                   packed, unpacked, box, computed, reply, vertices, area, call>>

\* lines 146-148: the diagram indexes its own site list, which the builder
\* may have clipped to the box; a cell it does not hold panics
VorCellPanic ==
    /\ pc = "cells"
    /\ ~SitesDone(i, Len(unpacked.points))
    /\ pc' = "panic"
    /\ UNCHANGED <<graph, triangles, chunk, graphB, trianglesB, point_json,
                   packed, unpacked, box, computed, i, areas_constructed,
                   cells_constructed, reply, vertices, area, call>>

\* lines 165-169
VorReply ==
    /\ pc = "cells"
    /\ SitesDone(i, Len(unpacked.points))
    /\ reply' = [kind |-> "diagram", graph |-> graph,
                 areas |-> areas_constructed, cells |-> cells_constructed]
    /\ pc' = "done"
    /\ UNCHANGED <<graph, triangles, chunk, graphB, trianglesB, point_json,
                   packed, unpacked, box, computed, i, areas_constructed,
                   cells_constructed, vertices, area, call>>

NextVor ==
    \/ VorDecode \/ VorBounds \/ VorBuild \/ VorGraphLoop \/ VorSlots
    \/ VorCell \/ VorCellPanic \/ VorReply

SpecVor == InitVor /\ [][NextVor]_vars

NSites == Len(unpacked.points)

(***************************************************************************)
(* C5: in a successful reply on N points, areas and cells have N slots     *)
(* each, slot k that of input point k; every areas slot is present exactly *)
(* when the area flag is nonzero and every cells slot exactly when the     *)
(* cell flag is nonzero, each flag on its own.                             *)
(***************************************************************************)
C5_SlotsFollowFlags ==
    pc = "done" =>
        /\ Len(reply.areas) = NSites
        /\ Len(reply.cells) = NSites
        /\ \A k \in 1..NSites :
              /\ reply.areas[k].some <=> packed.area # Zero
              /\ reply.cells[k].some <=> packed.cell # Zero
              /\ (reply.areas[k].some /\ reply.cells[k].some) =>
                    reply.areas[k].v = polygon_area(reply.cells[k].v)

\* cells asked for without areas, on several points
C5_Witness ==
    /\ pc = "done" /\ NSites >= 2
    /\ packed.area = Zero /\ packed.cell # Zero
    /\ \A k \in 1..NSites : reply.cells[k].some /\ ~reply.areas[k].some

SpreadX(ps) == FSub(Bounds(ps).x_high, Bounds(ps).x_low)
SpreadY(ps) == FSub(Bounds(ps).y_high, Bounds(ps).y_low)

(***************************************************************************)
(* C6: a negative margin yields an InvalidArgument error before geometry   *)
(* construction begins; a box smaller than the point spread (width <       *)
(* max_x - min_x or height < max_y - min_y) is never constructed.  Stated  *)
(* for calls with at least three points, the least a diagram needs.        *)
(***************************************************************************)
C6_NegativeMarginRejected ==
    (box.built /\ NSites >= 3) =>
        /\ ~FLess(unpacked.margin, Zero)
        /\ ~FLess(box.width, SpreadX(unpacked.points))
        /\ ~FLess(box.height, SpreadY(unpacked.points))

(***************************************************************************)
(* C7: a call either completes every stage and returns one full reply      *)
(* (graph, areas, cells), or fails as a whole: when decoding the payload   *)
(* or building the diagram fails, the call ends in an error and no reply   *)
(* holding a partial graph, areas or cells is returned.                    *)
(***************************************************************************)
C7_AllOrNothing ==
    /\ pc # "done" => reply = NoReply
    /\ pc = "done" =>
          /\ packed.valid /\ unpacked = packed
          /\ box.built /\ computed.some
          /\ chunk = NumChunks(triangles)
          /\ i = NSites
          /\ reply.kind = "diagram"
          /\ reply.graph = graph /\ graph.count = NSites
          /\ Len(graph.edges) = NSites
          /\ \A a \in Vertices(graph), b \in Vertices(graph) :
                (a # b /\ SideOfTriangle(triangles, NumChunks(triangles), a, b))
                    => Contains(At(graph.edges, a), b)
          /\ Len(reply.areas) = NSites /\ Len(reply.cells) = NSites
    /\ (pc \notin {"start", "bounds", "build"} /\ ~computed.some) => pc = "panic"
    /\ (pc # "start" /\ ~packed.valid) => pc = "panic"

\* zero margin, zero spread: the box is degenerate and build() failed
C7_Witness ==
    /\ pc = "panic" /\ reply = NoReply
    /\ box.built /\ box.width = Zero /\ box.height = Zero
    /\ NSites >= 1 /\ ~computed.some

(***************************************************************************)
(* SpecArea: DMVec2::polygon_area on a vertex list.                        *)
(***************************************************************************)
Big == Pow2(MantBits + 1)

VertexPool ==
    {DMVec2(Zero, Zero), DMVec2(Fin(1), Fin(1)), DMVec2(Fin(1), Fin(Big)),
     DMVec2(Fin(2), Zero)}

InitArea ==
    /\ pc = "area"
    /\ \E n \in 0..MaxVerts : vertices \in [1..n -> VertexPool]
    /\ area = Zero
    /\ reply = NoReply
    /\ GraphIdle /\ LoopIdle /\ SecondIdle /\ TriIdle /\ VorIdle

\* lines 24-33
PolygonArea ==
    /\ pc = "area"
    /\ area' = polygon_area(vertices)
    /\ pc' = "area_done"
    /\ UNCHANGED <<graph, triangles, chunk, graphB, trianglesB, point_json,
                   packed, unpacked, box, computed, i, areas_constructed,
                   cells_constructed, reply, vertices, call>>

NextArea == PolygonArea

SpecArea == InitArea /\ [][NextArea]_vars

Val(x) == x.n * Pow2(x.e)
Representable(v) == Val(Round(v, 0)) = v

\* the real-number shoelace sum of the first k terms
RECURSIVE Shoelace(_, _)
Shoelace(vs, k) ==
    IF k = 0 THEN 0
    ELSE LET j == k % Len(vs)
         IN  Shoelace(vs, k - 1)
                 + Val(At(vs, k - 1).x) * Val(At(vs, j).y)
                 - Val(At(vs, k - 1).y) * Val(At(vs, j).x)

\* no partial result of the loop needs more than MantBits bits
Unrounded(vs) ==
    \A k \in 1..Len(vs) :
        LET j == k % Len(vs)
            p == Val(At(vs, k - 1).x) * Val(At(vs, j).y)
        IN  /\ Representable(p)
            /\ Representable(Val(At(vs, k - 1).y) * Val(At(vs, j).x))
            /\ Representable(Shoelace(vs, k - 1) + p)
            /\ Representable(Shoelace(vs, k))

(***************************************************************************)
(* C8: polygon_area(vertices) is the shoelace sum over all i of            *)
(* x_i * y_((i+1) mod n) - y_i * x_((i+1) mod n), without the factor 0.5,  *)
(* and is 0 for every list of fewer than 3 vertices (n = 0, 1 or 2),       *)
(* whatever the coordinates.  The sum is compared as a real number only    *)
(* where the loop rounds nothing.                                          *)
(***************************************************************************)
C8_ShoelaceAndDegenerate ==
    pc = "area_done" =>
        /\ Unrounded(vertices) => area = Fin(Shoelace(vertices, Len(vertices)))
        /\ Len(vertices) < 3 => area = Zero

=============================================================================
